---- MODULE Spec2Model ----
(***************************************************************************)
(* Model of TTS_BatchTextSplitter (TTS_Streaming_Batch_Nodes.py): the      *)
(* split_to_batch entry point and its five splitting strategies.            *)
(*                                                                         *)
(* A Python str is a sequence of one-character strings.  Characters        *)
(* outside ASCII are written by code point: "u3002" is the ideographic    *)
(* full stop, "uFF01" the fullwidth exclamation mark, and so on.          *)
(* A list of str is a sequence of such sequences; Python's None, which     *)
(* re.split puts in its result for a group that took no part in a match,   *)
(* is the one-element sequence NoneValue.                                  *)
(***************************************************************************)
EXTENDS Integers, Sequences, FiniteSets, TLC

VARIABLES
    pc,              \* "call", then "returned" or "raised"
    text, split_mode, max_segments, split_length, regex_pattern, keep_delimiter,
    trimmed,         \* the local segments once trimmed and filtered, before truncation
    result,          \* the list returned
    raised           \* the exception raised, "" if none

vars == <<pc, text, split_mode, max_segments, split_length, regex_pattern,
          keep_delimiter, trimmed, result, raised>>

-----------------------------------------------------------------------------
(* Bounds of the input space.                                              *)

\* longest text drawn character by character
MaxLen == 3
\* most pieces of a text assembled from Pieces
MaxPieces == 4
\* length of the run of letters in the long piece
LongRun == 50
\* largest max_segments drawn
MaxSegments == 2
\* largest split_length drawn
MaxSplitLength == 3

-----------------------------------------------------------------------------
(* Characters.                                                             *)

\* what str.strip() removes and what \s matches
Whitespace == {" ", "\t", "\n", "\r", "\f", "u3000"}

\* [。！？；…!?.;] of _split_by_punctuation
PunctDelims == {"u3002", "uFF01", "uFF1F", "uFF1B", "u2026", "!", "?", ".", ";"}

\* [。！？!?] of pass 1 of _split_intelligent
Terminals == {"u3002", "uFF01", "uFF1F", "!", "?"}

\* [，；,;] of pass 2 of _split_intelligent
Clausals == {"uFF0C", "uFF1B", ",", ";"}

\* the characters the drawn texts are made of
Alphabet == {"a", " ", "!", ";", "|"}

NoneValue == <<"None">>

SPLIT_PIPE == "pipe"
SPLIT_PUNCTUATION == "punctuation"
SPLIT_LENGTH == "length"
SPLIT_REGEX == "regex"
SPLIT_INTELLIGENT == "intelligent"

SplitModes == {SPLIT_PIPE, SPLIT_PUNCTUATION, SPLIT_LENGTH, SPLIT_REGEX, SPLIT_INTELLIGENT}

\* defaults of the optional parameters of split_to_batch
DefaultSplitLength == 50
DefaultRegexPattern ==
    <<"(", "?", "<", "=", "[", "u3002", "uFF01", "uFF1F", ".", "!", "?", "]", ")", "\\", "s", "*">>
DefaultKeepDelimiter == TRUE

\* thresholds of _split_intelligent
RefineThreshold == 100
MergeThreshold == 10

-----------------------------------------------------------------------------
(* str primitives.                                                         *)

\* least element of a non-empty set of integers
Least(S) == CHOOSE x \in S : \A y \in S : x <= y

\* greatest element of a non-empty set of integers
Greatest(S) == CHOOSE x \in S : \A y \in S : y <= x

\* least index >= i of s holding a character of set D, Len(s)+1 if none
NextIn(s, D, i) ==
    LET at == {j \in i..Len(s) : s[j] \in D}
    IN  IF at = {} THEN Len(s) + 1 ELSE Least(at)

\* least index >= i of s holding a character outside D, Len(s)+1 if none
NextNotIn(s, D, i) ==
    LET at == {j \in i..Len(s) : s[j] \notin D}
    IN  IF at = {} THEN Len(s) + 1 ELSE Least(at)

\* greatest index <= i of s holding a character outside D, 0 if none
LastNotIn(s, D, i) ==
    LET at == {j \in 1..i : s[j] \notin D}
    IN  IF at = {} THEN 0 ELSE Greatest(at)

\* str.strip()
Strip(s) ==
    SubSeq(s, NextNotIn(s, Whitespace, 1), LastNotIn(s, Whitespace, Len(s)))

\* s[i:] with a 0-based i
From(s, i) == SubSeq(s, i + 1, Len(s))

RECURSIVE SumLen(_)
\* sum(len(s) for s in segments)
SumLen(segments) ==
    IF segments = <<>> THEN 0 ELSE Len(Head(segments)) + SumLen(Tail(segments))

RECURSIVE Concat(_)
\* "".join(segments)
Concat(segments) ==
    IF segments = <<>> THEN <<>> ELSE Head(segments) \o Concat(Tail(segments))

NonBlank(s) == Strip(s) # <<>>

\* [s for s in segments if s.strip()]
KeepNonBlank(segments) == SelectSeq(segments, NonBlank)

\* a variant that filters the blank segments but returns the others untrimmed
StripNonEmptyKeepsRaw(segments) == SelectSeq(segments, NonBlank)

\* [s.strip() for s in segments if s.strip()]
StripNonEmpty(segments) ==
    LET kept == SelectSeq(segments, NonBlank)
    IN  [k \in 1..Len(kept) |-> Strip(kept[k])]

-----------------------------------------------------------------------------
(* re primitives, for the patterns the module uses.                        *)

RECURSIVE FindallRuns(_, _, _)
\* re.findall(r'[^D]+[D]+', s), searching from index i: a match starts at a
\* character outside D, runs to the next character of D and takes the whole
\* run of D that follows; no match begins inside a run without a later D.
FindallRuns(s, D, i) ==
    IF i > Len(s) THEN <<>>
    ELSE IF s[i] \in D THEN FindallRuns(s, D, i + 1)
    ELSE LET j == NextIn(s, D, i)
         IN  IF j > Len(s) THEN <<>>
             ELSE LET k == NextNotIn(s, D, j)
                  IN  <<SubSeq(s, i, k - 1)>> \o FindallRuns(s, D, k)

RECURSIVE SplitRuns(_, _, _, _)
\* re.split(r'([^D]+[D]+)', s): the text between the matches and, the
\* pattern being one capturing group, each match itself.
SplitRuns(s, D, i, last) ==
    IF i > Len(s) THEN <<SubSeq(s, last, Len(s))>>
    ELSE IF s[i] \in D THEN SplitRuns(s, D, i + 1, last)
    ELSE LET j == NextIn(s, D, i)
         IN  IF j > Len(s) THEN <<SubSeq(s, last, Len(s))>>
             ELSE LET k == NextNotIn(s, D, j)
                  IN  <<SubSeq(s, last, i - 1), SubSeq(s, i, k - 1)>>
                      \o SplitRuns(s, D, k, k)

RECURSIVE SplitAfter(_, _, _, _)
\* re.split(r'(?<=[D])\s*', s): a match begins right after every character
\* of D and takes the whitespace that follows it (possibly none).
SplitAfter(s, D, i, last) ==
    LET d == NextIn(s, D, i)
    IN  IF d > Len(s) THEN <<SubSeq(s, last, Len(s))>>
        ELSE LET q == NextNotIn(s, Whitespace, d + 1)
             IN  <<SubSeq(s, last, d)>> \o SplitAfter(s, D, q, q)

RECURSIVE SplitOnChar(_, _, _, _)
\* s.split(c)
SplitOnChar(s, c, i, last) ==
    LET d == NextIn(s, {c}, i)
    IN  IF d > Len(s) THEN <<SubSeq(s, last, Len(s))>>
        ELSE <<SubSeq(s, last, d - 1)>> \o SplitOnChar(s, c, d + 1, d + 1)

-----------------------------------------------------------------------------
(* re.split for a caller's pattern.  The patterns drawn are alternations   *)
(* of one-character atoms, an atom being a literal or a literal in a       *)
(* capturing group: c, (c), (c)|d, ...  Compiling fails (re.error) on a    *)
(* group that is not closed and on a closing parenthesis without a group.  *)

\* the atom of pattern p at index i
ParseAtom(p, i) ==
    IF p[i] = "("
    THEN IF i + 2 <= Len(p) /\ p[i + 1] \notin {"(", ")", "|"} /\ p[i + 2] = ")"
         THEN [ok |-> TRUE, ch |-> p[i + 1], grouped |-> TRUE, next |-> i + 3]
         ELSE [ok |-> FALSE, ch |-> "", grouped |-> FALSE, next |-> i]
    ELSE IF p[i] \in {")", "|"}
         THEN [ok |-> FALSE, ch |-> "", grouped |-> FALSE, next |-> i]
         ELSE [ok |-> TRUE, ch |-> p[i], grouped |-> FALSE, next |-> i + 1]

RECURSIVE ParseAlternatives(_, _, _, _)
ParseAlternatives(p, i, alts, ngroups) ==
    LET failed == [ok |-> FALSE, alts |-> <<>>, groups |-> 0]
    IN  IF i > Len(p) THEN failed
        ELSE LET a == ParseAtom(p, i)
                 n == IF a.grouped THEN ngroups + 1 ELSE ngroups
                 all == Append(alts, [ch |-> a.ch, group |-> IF a.grouped THEN n ELSE 0])
             IN  IF ~a.ok THEN failed
                 ELSE IF a.next > Len(p) THEN [ok |-> TRUE, alts |-> all, groups |-> n]
                 ELSE IF p[a.next] = "|" THEN ParseAlternatives(p, a.next + 1, all, n)
                 ELSE failed

\* re.compile(pattern): ok is FALSE where Python raises re.error
Compile(pattern) == ParseAlternatives(pattern, 1, <<>>, 0)

\* the first alternative of the compiled pattern c that matches character ch, 0 if none
MatchingAlt(c, ch) ==
    LET m == {k \in 1..Len(c.alts) : c.alts[k].ch = ch}
    IN  IF m = {} THEN 0 ELSE Least(m)

RECURSIVE ReSplit(_, _, _, _)
\* re.split(pattern, s) for the compiled pattern c: the text between the
\* matches and, after each, one entry per capturing group: what the group
\* matched, or None when the group took no part in the match.
ReSplit(c, s, i, last) ==
    LET d == NextIn(s, {c.alts[k].ch : k \in 1..Len(c.alts)}, i)
    IN  IF d > Len(s) THEN <<SubSeq(s, last, Len(s))>>
        ELSE LET k == MatchingAlt(c, s[d])
             IN  <<SubSeq(s, last, d - 1)>>
                 \o [g \in 1..c.groups |-> IF c.alts[k].group = g THEN <<s[d]>> ELSE NoneValue]
                 \o ReSplit(c, s, d + 1, d + 1)

-----------------------------------------------------------------------------
(* The strategies.                                                         *)

\* the tail both findall strategies append: text[last_match_end:].strip(),
\* last_match_end being the sum of the lengths of the matches
Remaining(txt, segments) ==
    LET last_match_end == SumLen(segments)
    IN  IF last_match_end < Len(txt)
        THEN LET remaining == Strip(From(txt, last_match_end))
             IN  IF remaining # <<>> THEN <<remaining>> ELSE <<>>
        ELSE <<>>

split_by_pipe(txt) == SplitOnChar(txt, "|", 1, 1)

split_by_punctuation(txt, keep) ==
    IF keep
    THEN LET segments == FindallRuns(txt, PunctDelims, 1)
         IN  segments \o Remaining(txt, segments)
    ELSE SplitAfter(txt, PunctDelims, 1, 1)

\* txt[i:j] with 0-based i and j, j cut to len(txt)
Slice(txt, i, j) == SubSeq(txt, i + 1, IF j < Len(txt) THEN j ELSE Len(txt))

\* range(0, n, step) as the sequence of its values
Range(n, step) == [k \in 1..((n + step - 1) \div step) |-> (k - 1) * step]

\* a variant whose slices are one character too long: text[i:i+length+1]
split_by_length_wide(txt, length) ==
    LET starts == Range(Len(txt), length)
    IN  [k \in 1..Len(starts) |-> Slice(txt, starts[k], starts[k] + length + 1)]

split_by_length(txt, length) ==
    LET starts == Range(Len(txt), length)
    IN  [k \in 1..Len(starts) |-> Slice(txt, starts[k], starts[k] + length)]

\* a variant whose fallback drops the caller's keep_delimiter for the default
split_by_regex_default_keep(txt, pattern, keep) ==
    LET c == Compile(pattern)
    IN  IF c.ok THEN ReSplit(c, txt, 1, 1)
        ELSE split_by_punctuation(txt, TRUE)

split_by_regex(txt, pattern, keep) ==
    LET c == Compile(pattern)
    IN  IF c.ok THEN ReSplit(c, txt, 1, 1)
        ELSE split_by_punctuation(txt, keep)

\* pass 1 of _split_intelligent
PrimarySegments(txt) ==
    LET segments == FindallRuns(txt, Terminals, 1)
    IN  segments \o Remaining(txt, segments)

RECURSIVE RefineSegments(_)
\* pass 2 of _split_intelligent
RefineSegments(segments) ==
    IF segments = <<>> THEN <<>>
    ELSE LET seg == Head(segments)
         IN  (IF Len(seg) > RefineThreshold
              THEN KeepNonBlank(SplitRuns(seg, Clausals, 1, 1))
              ELSE <<seg>>)
             \o RefineSegments(Tail(segments))

\* a variant that merges only while nothing has been finalized
ShouldMergeInverted(temp, seg, final_segments) ==
    Len(temp) + Len(seg) < MergeThreshold /\ final_segments = <<>>

\* a variant that asks for a non-empty buffer instead of a finalized segment
ShouldMergeIntoBuffer(temp, seg, final_segments) ==
    Len(temp) + Len(seg) < MergeThreshold /\ temp # <<>>

\* the test of pass 3: merge seg into the buffer temp
ShouldMerge(temp, seg, final_segments) ==
    Len(temp) + Len(seg) < MergeThreshold /\ final_segments # <<>>

RECURSIVE MergeShort(_, _, _)
\* pass 3 of _split_intelligent: the loop over refined_segments and the
\* flush of the buffer that follows it
MergeShort(refined, temp, final_segments) ==
    IF refined = <<>>
    THEN IF temp # <<>> THEN Append(final_segments, temp) ELSE final_segments
    ELSE LET seg == Strip(Head(refined))
         IN  IF ShouldMerge(temp, seg, final_segments)
             THEN MergeShort(Tail(refined), temp \o seg, final_segments)
             ELSE MergeShort(Tail(refined), seg,
                             IF temp # <<>> THEN Append(final_segments, temp)
                             ELSE final_segments)

split_intelligent(txt) ==
    MergeShort(RefineSegments(PrimarySegments(txt)), <<>>, <<>>)

-----------------------------------------------------------------------------
(* split_to_batch.                                                         *)

\* the dispatch on split_mode
Dispatch(txt, mode, length, pattern, keep) ==
    CASE mode = SPLIT_PIPE -> split_by_pipe(txt)
      [] mode = SPLIT_PUNCTUATION -> split_by_punctuation(txt, keep)
      [] mode = SPLIT_LENGTH -> split_by_length(txt, length)
      [] mode = SPLIT_REGEX -> split_by_regex(txt, pattern, keep)
      [] mode = SPLIT_INTELLIGENT -> split_intelligent(txt)
      [] OTHER -> <<>>

\* a variant that keeps one segment too many
TruncateOffByOne(segments, maxseg) ==
    IF Len(segments) > maxseg THEN SubSeq(segments, 1, maxseg + 1) ELSE segments

\* segments[:max_segments] when there are more than max_segments
Truncate(segments, maxseg) ==
    IF Len(segments) > maxseg THEN SubSeq(segments, 1, maxseg) ELSE segments

\* s.strip() on None raises AttributeError
HasNone(segments) == \E k \in 1..Len(segments) : segments[k] = NoneValue

\* what split_to_batch does: the list it returns, or the exception it raises
split_to_batch(txt, mode, maxseg, length, pattern, keep) ==
    LET t == Strip(txt)
    IN  IF t = <<>> THEN [raised |-> "", segments |-> <<>>, value |-> <<>>]
        ELSE LET raw == Dispatch(t, mode, length, pattern, keep)
             IN  IF HasNone(raw)
                 THEN [raised |-> "AttributeError", segments |-> <<>>, value |-> <<>>]
                 ELSE LET kept == StripNonEmpty(raw)
                      IN  [raised |-> "", segments |-> kept,
                           value |-> Truncate(kept, maxseg)]

-----------------------------------------------------------------------------
(* The inputs drawn.                                                       *)

ShortTexts == UNION {[1..n -> Alphabet] : n \in 0..MaxLen}

LongPiece == [i \in 1..(LongRun + 1) |-> IF i <= LongRun THEN "a" ELSE ";"]

Pieces == {<<"a", "!">>, <<"a", "a", "a", "a", "!">>, <<"!">>, LongPiece}

PieceTexts == {Concat(ps) : ps \in UNION {[1..n -> Pieces] : n \in 1..MaxPieces}}

Texts == ShortTexts \cup PieceTexts

\* patterns for the custom-regex strategy:  ;   (;)   (;)|!   (;
Patterns ==
    {<<";">>, <<"(", ";", ")">>, <<"(", ";", ")", "|", "!">>, <<"(", ";">>}

-----------------------------------------------------------------------------
(* The state machine: a call of split_to_batch with drawn arguments.      *)
(* An optional parameter the selected strategy does not read is left at    *)
(* its default.                                                            *)

Init ==
    /\ pc = "call"
    /\ text \in Texts
    /\ split_mode \in SplitModes
    /\ max_segments \in 1..MaxSegments
    /\ split_length \in IF split_mode = SPLIT_LENGTH THEN 1..MaxSplitLength
                        ELSE {DefaultSplitLength}
    /\ regex_pattern \in IF split_mode = SPLIT_REGEX THEN Patterns
                         ELSE {DefaultRegexPattern}
    /\ keep_delimiter \in IF split_mode \in {SPLIT_PUNCTUATION, SPLIT_REGEX} THEN BOOLEAN
                          ELSE {DefaultKeepDelimiter}
    /\ trimmed = <<>>
    /\ result = <<>>
    /\ raised = ""

SplitToBatch ==
    /\ pc = "call"
    /\ LET r == split_to_batch(text, split_mode, max_segments, split_length,
                               regex_pattern, keep_delimiter)
       IN  /\ pc' = IF r.raised = "" THEN "returned" ELSE "raised"
           /\ trimmed' = r.segments
           /\ result' = r.value
           /\ raised' = r.raised
    /\ UNCHANGED <<text, split_mode, max_segments, split_length, regex_pattern,
                   keep_delimiter>>

Next == SplitToBatch

Spec == Init /\ [][Next]_vars

-----------------------------------------------------------------------------
(* Vocabulary of the properties.                                           *)

\* the text split_to_batch works on: text.strip()
Stripped == Strip(text)

Returned == pc = "returned"

Smaller(a, b) == IF a < b THEN a ELSE b

\* the segments the selected strategy hands to the trimming of split_to_batch
RawSegments ==
    Dispatch(Stripped, split_mode, split_length, regex_pattern, keep_delimiter)

NotWhitespace(c) == c \notin Whitespace

WithoutWhitespace(s) == SelectSeq(s, NotWhitespace)

\* how many characters a from index i and b from index j have in common
CommonPrefix(a, i, b, j) ==
    LET n == Smaller(Len(a) - i, Len(b) - j) + 1
        differ == {d \in 0..(n - 1) : a[i + d] # b[j + d]}
    IN  IF differ = {} THEN n ELSE Least(differ)

RECURSIVE IsSubsequence(_, _, _, _)
\* the characters of a from index i on occur, in order, in b from index j
\* on: each character of a is matched with its first occurrence left in b
IsSubsequence(a, i, b, j) ==
    IF i > Len(a) THEN TRUE
    ELSE LET first == NextIn(b, {a[i]}, j)
         IN  IF first > Len(b) THEN FALSE
             ELSE LET n == CommonPrefix(a, i, b, first)
                  IN  IsSubsequence(a, i + n, b, first + n)

\* s holds no whitespace
Solid(s) == \A i \in 1..Len(s) : s[i] \notin Whitespace

\* the refined segments of the intelligent strategy, as pass 3 reads them
RefinedTrimmed ==
    LET refined == RefineSegments(PrimarySegments(Stripped))
    IN  [k \in 1..Len(refined) |-> Strip(refined[k])]

\* the last refined segment of the output segment that begins at refined
\* segment i: i itself for the first output segment; for a later one the
\* buffer takes each following segment that keeps it under MergeThreshold
GroupEnd(r, i, first) ==
    IF first THEN i
    ELSE CHOOSE j \in i..Len(r) :
            /\ \A m \in (i + 1)..j : SumLen(SubSeq(r, i, m - 1)) + Len(r[m]) < MergeThreshold
            /\ j = Len(r) \/ SumLen(SubSeq(r, i, j)) + Len(r[j + 1]) >= MergeThreshold

RECURSIVE IsGrouping(_, _, _, _)
\* out, from its segment k on, is the refined segments r from i on, grouped
\* by the merge rule
IsGrouping(r, out, i, k) ==
    IF k > Len(out) THEN i > Len(r)
    ELSE /\ i <= Len(r)
         /\ LET j == GroupEnd(r, i, k = 1)
            IN  /\ out[k] = Concat(SubSeq(r, i, j))
                /\ IsGrouping(r, out, j + 1, k + 1)

-----------------------------------------------------------------------------
(* C1: every segment split_to_batch returns is non-empty and begins and    *)
(* ends with a character that is not whitespace, whatever the text, the    *)
(* strategy and the options.                                               *)
C1_SegmentsTrimmedNonEmpty ==
    Returned =>
        \A k \in 1..Len(result) :
            /\ Len(result[k]) >= 1
            /\ result[k][1] \notin Whitespace
            /\ result[k][Len(result[k])] \notin Whitespace

\* a call that returned a segment the strategy produced with whitespace around it
C1_Witness ==
    /\ Returned
    /\ result # <<>>
    /\ LET raw == RawSegments
       IN  /\ \E k \in 1..Len(raw) : Strip(raw[k]) # <<>> /\ Strip(raw[k]) # raw[k]
           /\ \E k \in 1..Len(raw) : Strip(raw[k]) = <<>>

(* C2: the list returned has at most max_segments segments and is the      *)
(* first min(max_segments, n) of the n trimmed non-empty segments, in the  *)
(* same order and unaltered.                                               *)
C2_TruncationKeepsPrefix ==
    Returned =>
        /\ Len(result) <= max_segments
        /\ Len(result) = Smaller(max_segments, Len(trimmed))
        /\ \A k \in 1..Len(result) : result[k] = trimmed[k]

\* a call that truncated a list of three or more segments to two
C2_Witness ==
    /\ Returned
    /\ max_segments = 2
    /\ Len(trimmed) > max_segments
    /\ Len(result) = 2

(* C3: with the punctuation strategy and keep_delimiter false, no segment  *)
(* returned contains a delimiter character.                                *)
C3_DelimitersDiscarded ==
    (Returned /\ split_mode = SPLIT_PUNCTUATION /\ ~keep_delimiter) =>
        \A k \in 1..Len(result) :
            \A i \in 1..Len(result[k]) : result[k][i] \notin PunctDelims

(* C4: with the punctuation strategy and keep_delimiter true, the segment  *)
(* appended after the matches is the trimmed text that follows the last    *)
(* matched delimiter run, and is appended only when that text is not       *)
(* empty.                                                                  *)
C4_TailFollowsLastMatch ==
    (Returned /\ split_mode = SPLIT_PUNCTUATION /\ keep_delimiter) =>
        LET t == Stripped
            matches == FindallRuns(t, PunctDelims, 1)
            delims == {i \in 1..Len(t) : t[i] \in PunctDelims}
            \* a match ends with a whole run of delimiters and no delimiter
            \* follows the last match
            last_end == IF matches = <<>> THEN 0
                        ELSE Greatest(delims)
            tail == Strip(From(t, last_end))
        IN  trimmed = StripNonEmpty(matches \o (IF tail # <<>> THEN <<tail>> ELSE <<>>))

(* C5: with the fixed-length strategy, when the output is not truncated,   *)
(* every segment returned but the last has exactly split_length            *)
(* characters and the last has between 1 and split_length.                 *)
C5_ExactChunkLengths ==
    (Returned /\ split_mode = SPLIT_LENGTH /\ Len(trimmed) <= max_segments) =>
        /\ \A k \in 1..(Len(result) - 1) : Len(result[k]) = split_length
        /\ result # <<>> => Len(result[Len(result)]) \in 1..split_length

(* C5 as amended: with the fixed-length strategy every segment returned    *)
(* has between 1 and split_length characters; when the trimmed text holds  *)
(* no whitespace, every segment returned but the last has exactly          *)
(* split_length characters, there are min(max_segments,                    *)
(* ceil(len / split_length)) of them, and untruncated they concatenate to  *)
(* the text.                                                               *)
C5_ChunkLengthsUpToTrim ==
    (Returned /\ split_mode = SPLIT_LENGTH) =>
        /\ \A k \in 1..Len(result) : Len(result[k]) \in 1..split_length
        /\ LET t == Stripped
               n == (Len(t) + split_length - 1) \div split_length
           IN  Solid(t) =>
                  /\ \A k \in 1..(Len(result) - 1) : Len(result[k]) = split_length
                  /\ Len(result) = Smaller(max_segments, n)
                  /\ n <= max_segments => Concat(result) = t

\* an untruncated fixed-length call whose last segment is the shorter one
C5_Witness ==
    /\ Returned
    /\ split_mode = SPLIT_LENGTH
    /\ Solid(Stripped)
    /\ Len(result) = 2
    /\ Len(trimmed) = 2
    /\ Len(result[1]) = split_length
    /\ Len(result[2]) < split_length

(* C6: with the custom-regex strategy and a pattern that does not compile, *)
(* the call returns, and returns what the punctuation strategy returns for *)
(* the same text, keep_delimiter and max_segments.                         *)
C6_InvalidPatternFallsBack ==
    (pc # "call" /\ split_mode = SPLIT_REGEX /\ ~Compile(regex_pattern).ok) =>
        /\ Returned
        /\ result = split_to_batch(text, SPLIT_PUNCTUATION, max_segments, split_length,
                                   regex_pattern, keep_delimiter).value

\* a fallback call with keep_delimiter false on a text with a run of two delimiters
C6_Witness ==
    /\ Returned
    /\ split_mode = SPLIT_REGEX
    /\ ~Compile(regex_pattern).ok
    /\ ~keep_delimiter
    /\ LET t == Stripped
       IN  \E i \in 1..(Len(t) - 1) : t[i] \in PunctDelims /\ t[i + 1] \in PunctDelims
    /\ Len(result) >= 2

(* C7: split_to_batch returns for every text, strategy, max_segments >= 1, *)
(* split_length >= 1, pattern and keep_delimiter; no call ends in an       *)
(* exception.                                                              *)
C7_NeverRaises == pc # "raised"

(* C8: for the pipe, punctuation, fixed-length and intelligent strategies  *)
(* the segments returned, concatenated and without whitespace, are an      *)
(* in-order subsequence of the characters of the text.                     *)
C8_OrderedSubsequence ==
    (Returned /\ split_mode # SPLIT_REGEX) =>
        IsSubsequence(WithoutWhitespace(Concat(result)), 1, WithoutWhitespace(text), 1)

(* C9: with the intelligent strategy, before truncation, every output      *)
(* segment from the second on has, with the segment before it, at least    *)
(* 10 characters.                                                          *)
C9_AdjacentPairsFromSecond ==
    (Returned /\ split_mode = SPLIT_INTELLIGENT) =>
        \A k \in 2..Len(trimmed) : Len(trimmed[k - 1]) + Len(trimmed[k]) >= 10

(* C9 as amended: with the intelligent strategy, before truncation, every  *)
(* output segment from the third on has, with the segment before it, at    *)
(* least 10 characters.                                                    *)
C9_AdjacentPairsFromThird ==
    (Returned /\ split_mode = SPLIT_INTELLIGENT) =>
        \A k \in 3..Len(trimmed) : Len(trimmed[k - 1]) + Len(trimmed[k]) >= 10

\* an intelligent call with three or more output segments, one of them merged
C9_Witness ==
    /\ Returned
    /\ split_mode = SPLIT_INTELLIGENT
    /\ Len(trimmed) >= 3
    /\ Len(RefinedTrimmed) > Len(trimmed)

(* C10: pass 3 of the intelligent strategy merges a refined segment into   *)
(* the buffer exactly when buffer and segment together have fewer than 10  *)
(* characters and a segment has been finalized: the output before          *)
(* truncation is the refined segments grouped by that rule, its first      *)
(* segment is the first refined segment alone, the second begins with the  *)
(* second refined segment, and every adjacent pair that does not include   *)
(* the first output segment has at least 10 characters.                    *)
C10_MergeRule ==
    (Returned /\ split_mode = SPLIT_INTELLIGENT) =>
        LET r == RefinedTrimmed
        IN  /\ IsGrouping(r, trimmed, 1, 1)
            /\ r # <<>> => trimmed # <<>> /\ trimmed[1] = r[1]
            /\ Len(r) >= 2 =>
                  /\ Len(trimmed) >= 2
                  /\ SubSeq(trimmed[2], 1, Len(r[2])) = r[2]
            /\ \A k \in 2..(Len(trimmed) - 1) :
                  Len(trimmed[k]) + Len(trimmed[k + 1]) >= 10

\* an intelligent call whose first two output segments stay apart although
\* short, and whose later segments were merged
C10_Witness ==
    /\ Returned
    /\ split_mode = SPLIT_INTELLIGENT
    /\ Len(trimmed) >= 2
    /\ Len(trimmed[1]) + Len(trimmed[2]) < 10
    /\ Len(RefinedTrimmed) > Len(trimmed)

====
